---- MODULE Spec2Model ----
(***************************************************************************)
(* Model of etf_mapper.compo_mapper.CompoMapper (AHinterding/etf-loader).  *)
(*                                                                         *)
(* A pandas DataFrame is a sequence of records (one record per row, one    *)
(* field per column).  A cell is a record [kind, ...]: kind "nan" is a     *)
(* missing value (NaN / None), every other kind is a present value.        *)
(* Strings that the code slices or rewrites (ISIN, alpha codes) are tuples *)
(* of one-character strings.  Weights are integers (percent).              *)
(* The index column of the holdings file (index_col=0) takes no part in    *)
(* any operation of the class and is left out of the rows.                 *)
(***************************************************************************)
EXTENDS Integers, Sequences, FiniteSets, TLC

(* ------------------------------ bounds --------------------------------- *)

MaxRows == 2

(* functools.lru_cache() is used with its default maxsize *)
CacheMaxSize == 128

\* the CompoMapper objects of the process
Mappers == {"mapper_a", "mapper_b"}

(* ------------------------------- cells --------------------------------- *)

Num(n) == [kind |-> "num", val |-> n]
BadNum == [kind |-> "text", val |-> 0]
NaNum  == [kind |-> "nan", val |-> 0]

Txt(s) == [kind |-> "str", s |-> s]
NaTxt  == [kind |-> "nan", s |-> ""]

Code(s) == [kind |-> "str", s |-> s]
NaCode  == [kind |-> "nan", s |-> <<>>]

isna(c) == c.kind = "nan"

(* --------------------------- the two files ----------------------------- *)

PlotDate == "2026-11-03"
Tickers == {"WOOD", "NONE"}

\* A holdings row: 'Asset Class', 'Weight (%)', 'ISIN' and Other, which
\* stands for every further column of the holdings file.
HoldingRow(ac, w, isin, other) ==
    [AssetClass |-> ac, Weight |-> w, ISIN |-> isin, Other |-> other]

US0 == Code(<<"U", "S", "0">>)
JP0 == Code(<<"J", "P", "0">>)
XX0 == Code(<<"X", "X", "0">>)

Rows ==
    { HoldingRow(Txt("Equity"), Num(40), US0, Txt("x")),
      HoldingRow(Txt("Equity"), Num(10), JP0, Txt("x")),
      HoldingRow(Txt("Equity"), Num(10), XX0, Txt("x")),
      HoldingRow(Txt("Bond"), Num(50), US0, Txt("x")),
      HoldingRow(Txt("Bond"), BadNum, NaCode, Txt("x")),
      HoldingRow(Txt("Equity"), NaNum, US0, Txt("x")),
      HoldingRow(Txt("Equity"), BadNum, US0, Txt("x")),
      HoldingRow(Txt("Equity"), Num(10), NaCode, Txt("x")),
      HoldingRow(Txt("Equity"), Num(10), US0, NaTxt) }

\* the holdings of the specification's example (section 8)
ExampleHoldings ==
    << HoldingRow(Txt("Equity"), Num(40), US0, Txt("x")),
       HoldingRow(Txt("Equity"), Num(10), JP0, Txt("x")),
       HoldingRow(Txt("Bond"), Num(50), US0, Txt("x")) >>

HoldingsFiles ==
    UNION { [1..n -> Rows] : n \in 0..MaxRows } \cup {ExampleHoldings}

IsoRow(a2, a3, name) == [Alpha2 |-> a2, Alpha3 |-> a3, Name |-> name]

\* data/iso_country_mapping.csv as stored: codes may carry blanks
IsoTable3 ==
    << IsoRow(<<"U", "S">>, <<"U", "S", "A">>, "United States"),
       IsoRow(<<" ", "J", "P">>, <<" ", "J", "P", "N">>, "Japan"),
       IsoRow(<<"D", "E", " ">>, <<"D", "E", "U">>, "Germany") >>

IsoTable2 ==
    << IsoRow(<<"D", "E">>, <<"D", " ", "E", "U">>, "Germany"),
       IsoRow(<<" ", "U", "S">>, <<"U", "S", "A", " ">>, "United States") >>

IsoFiles ==
    { [exists |-> TRUE, rows |-> IsoTable3],
      [exists |-> TRUE, rows |-> IsoTable2],
      [exists |-> FALSE, rows |-> <<>>] }

Iso2Args == { Code(<<"J", "P">>), Code(<<"X", "X">>) }
Iso3Args == { Code(<<"U", "S", "A">>), Code(<<"X", "X", "X">>) }

(* ------------------------------ state ---------------------------------- *)

VARIABLES
    fs,       \* holdings files on disk: path -> rows
    iso_csv,  \* data/iso_country_mapping.csv: [exists, rows]
    cache,    \* the lru_cache of load_iso_mapping, least recent first
    loads,    \* how often load_iso_mapping has read and normalized the file
    result    \* the last call: operation, arguments, outcome, effects

vars == <<fs, iso_csv, cache, loads, result>>

(* -------------------------- outcomes of a call ------------------------- *)

\* env threads the effects of a call through the calls it makes:
\* cache, loads  the lru_cache and the number of file loads,
\* calls         load_iso_mapping invocations made by the current call,
\* logged        messages handed to the logger by the current call,
\* compo         the frame last returned by load_etf_compo in this call,
\* shown         the frames handed to show_weightings_plot in this call.
Env0(c, l) ==
    [cache |-> c, loads |-> l, calls |-> 0, logged |-> {},
     compo |-> <<>>, shown |-> <<>>]

Return(v, env) == [status |-> "returned", exc |-> "", value |-> v, env |-> env]
Raise(e, env)  == [status |-> "raised", exc |-> e, value |-> <<>>, env |-> env]

Log(env, msg) == [env EXCEPT !.logged = @ \cup {msg}]

\* x = <expression>; <rest, which reads x>: the expression is evaluated
\* once and its value is what the rest reads
Bind(x, rest(_)) == CHOOSE out \in { rest(v) : v \in {x} } : TRUE

(* -------------------------- Reference Loader --------------------------- *)

\* the value a lookup returns when no row of the table matches
None == [kind |-> "nan", s |-> <<>>]

\* x.replace(' ', '')
RECURSIVE replace_blank(_)
replace_blank(x) ==
    IF x = <<>> THEN <<>>
    ELSE IF Head(x) = " " THEN replace_blank(Tail(x))
    ELSE <<Head(x)>> \o replace_blank(Tail(x))

\* pd.read_csv of the reference file, both code columns normalised
read_iso_frame(iso) ==
    [i \in DOMAIN iso.rows |->
        [Alpha2 |-> replace_blank(iso.rows[i].Alpha2),
         Alpha3 |-> replace_blank(iso.rows[i].Alpha3),
         Name   |-> iso.rows[i].Name]]

\* lru_cache: the positions of key, a hit moved to the most recent end, a
\* miss stored at the most recent end with the least recent entry evicted
\* once maxsize is exceeded
lru_find(c, key) == { i \in DOMAIN c : c[i].key = key }

lru_touch(c, i) == SubSeq(c, 1, i - 1) \o SubSeq(c, i + 1, Len(c)) \o <<c[i]>>

lru_store(c, key, value) ==
    LET full == Append(c, [key |-> key, value |-> value])
    IN  IF Len(full) > CacheMaxSize THEN Tail(full) ELSE full

\* the cache key of a call of load_iso_mapping: the argument tuple (self,)
cache_key(self) == self

\* load_iso_mapping under @lru_cache(); an exception is not cached
load_iso_mapping(self, iso, env) ==
    Bind([env EXCEPT !.calls = @ + 1], LAMBDA e :
        LET hit == lru_find(e.cache, cache_key(self))
        IN  IF hit # {}
            THEN LET i == CHOOSE i \in hit : TRUE
                 IN  Return(e.cache[i].value,
                            [e EXCEPT !.cache = lru_touch(@, i)])
            ELSE IF ~iso.exists
            THEN Raise("FileNotFoundError", Log(e, "DEBUG Loading ISO mapping."))
            ELSE Bind(read_iso_frame(iso), LAMBDA iso_frame :
                    Return(iso_frame,
                           [Log(e, "DEBUG Loading ISO mapping.")
                               EXCEPT !.cache = lru_store(@, cache_key(self), iso_frame),
                                      !.loads = @ + 1])))

\* list(column).index(x) for an x that occurs in the column
first_index(idxs) == CHOOSE i \in idxs : \A j \in idxs : i <= j

get_country_name_from_iso3(self, iso3, iso, env) ==
    Bind(load_iso_mapping(self, iso, env), LAMBDA r :
        IF r.status = "raised" THEN r
        ELSE LET idxs == { i \in DOMAIN r.value :
                             iso3.kind = "str" /\ r.value[i].Alpha3 = iso3.s }
             IN  IF idxs # {}
                 THEN Return(Txt(r.value[first_index(idxs)].Name), r.env)
                 ELSE Return(None,
                             Log(r.env, "WARNING No valid ISO mapping found")))

\* mutant of get_iso3_from_iso2: list(...).index(iso2) without the membership
\* test, which raises ValueError for a code the table does not hold
get_iso3_unguarded(self, iso2, iso, env) ==
    Bind(load_iso_mapping(self, iso, env), LAMBDA r :
        IF r.status = "raised" THEN r
        ELSE LET idxs == { i \in DOMAIN r.value :
                             iso2.kind = "str" /\ r.value[i].Alpha2 = iso2.s }
             IN  IF idxs # {}
                 THEN Return(Code(r.value[first_index(idxs)].Alpha3), r.env)
                 ELSE Raise("ValueError: is not in list", r.env))

get_iso3_from_iso2(self, iso2, iso, env) ==
    Bind(load_iso_mapping(self, iso, env), LAMBDA r :
        IF r.status = "raised" THEN r
        ELSE LET idxs == { i \in DOMAIN r.value :
                             iso2.kind = "str" /\ r.value[i].Alpha2 = iso2.s }
             IN  IF idxs # {}
                 THEN Return(Code(r.value[first_index(idxs)].Alpha3), r.env)
                 ELSE Return(None,
                             Log(r.env, "WARNING No valid ISO mapping found")))

(* ------------------------------ Aggregator ----------------------------- *)

\* get_file_path_by_ticker: downloads/compositions/<date>/<ticker>_holdings_<date>.csv
get_file_path_by_ticker(plot_date, ticker) ==
    [folder |-> <<"downloads", "compositions", plot_date>>,
     name   |-> <<ticker, "_holdings_", plot_date, ".csv">>]

Paths == { get_file_path_by_ticker(PlotDate, t) : t \in Tickers }

\* file_path.exists()
path_exists(file_path, files) == file_path \in DOMAIN files

\* mutant of is_equity: the asset class is not looked at
is_equity_any(row) == TRUE

\* compo_frame['Asset Class'] == 'Equity'
is_equity(row) == row.AssetClass.kind = "str" /\ row.AssetClass.s = "Equity"

\* float(x) raises ValueError on a string that is no number; float(nan) is nan
float_raises(w) == w.kind = "text"

\* x[:2] raises TypeError on a missing ISIN, which pandas reads as a float
slice_raises(isin) == isin.kind # "str"

\* x[:2]
iso2_code(isin) ==
    Code(SubSeq(isin.s, 1, IF Len(isin.s) < 2 THEN Len(isin.s) ELSE 2))

\* DataFrame.dropna() keeps the rows without a missing value in any column
notna_row(row) ==
    /\ ~isna(row.AssetClass)
    /\ ~isna(row.Weight)
    /\ ~isna(row.ISIN)
    /\ ~isna(row.Other)
    /\ ~isna(row.iso2_code)
    /\ ~isna(row.iso3_code)

\* Series.apply(lambda x: self.get_iso3_from_iso2(x)), row after row
RECURSIVE apply_get_iso3(_, _, _, _, _)
apply_get_iso3(self, column, iso, env, acc) ==
    IF column = <<>> THEN Return(acc, env)
    ELSE Bind(get_iso3_from_iso2(self, Head(column), iso, env), LAMBDA r :
            IF r.status = "raised" THEN r
            ELSE Bind(Tail(column), LAMBDA rest :
                 Bind(Append(acc, r.value), LAMBDA acc1 :
                    apply_get_iso3(self, rest, iso, r.env, acc1))))

\* mutant of missing_file: an empty composition is returned
missing_file_empty(file_path, env) ==
    Return(<<>>, Log(env, "ERROR Non-existent file path"))

\* the branch of a file path that does not exist: the message
\* 'Non-existent file path ...! Data must be downloaded first!' is logged
\* as an error and raised as a ValueError
missing_file(file_path, env) ==
    Raise("ValueError: Non-existent file path",
          Log(env, "ERROR Non-existent file path"))

\* the body of load_etf_compo
load_etf_compo_body(self, file_path, files, iso, env) ==
    IF ~path_exists(file_path, files)
    THEN missing_file(file_path, env)
    ELSE
    Bind(SelectSeq(files[file_path], is_equity), LAMBDA equity :
        IF \E i \in DOMAIN equity : float_raises(equity[i].Weight)
        THEN Raise("ValueError: could not convert string to float", env)
        ELSE IF \E i \in DOMAIN equity : slice_raises(equity[i].ISIN)
        THEN Raise("TypeError: 'float' object is not subscriptable", env)
        ELSE
        Bind([i \in DOMAIN equity |-> iso2_code(equity[i].ISIN)], LAMBDA iso2 :
        Bind(apply_get_iso3(self, iso2, iso, env, <<>>), LAMBDA r :
            IF r.status = "raised" THEN r
            ELSE
            Bind(SelectSeq([i \in DOMAIN equity |->
                               [AssetClass |-> equity[i].AssetClass,
                                Weight     |-> equity[i].Weight,
                                ISIN       |-> equity[i].ISIN,
                                Other      |-> equity[i].Other,
                                iso2_code  |-> iso2[i],
                                iso3_code  |-> r.value[i]]],
                           notna_row),
                 LAMBDA compo_frame :
                    Return(compo_frame, [r.env EXCEPT !.compo = compo_frame])))))

\* @logger.catch(reraise=True): an exception is logged and raised again
load_etf_compo(self, file_path, files, iso, env) ==
    Bind(load_etf_compo_body(self, file_path, files, iso, env), LAMBDA r :
        IF r.status = "raised"
        THEN Raise(r.exc, Log(r.env, "ERROR An error has been caught"))
        ELSE r)

\* the order of Python strings, on the characters the codes are made of
Alphabet == <<" ", "0", "A", "D", "E", "J", "N", "P", "S", "U", "X">>

ord(ch) == CHOOSE i \in DOMAIN Alphabet : Alphabet[i] = ch

RECURSIVE str_lt(_, _)
str_lt(a, b) ==
    IF b = <<>> THEN FALSE
    ELSE IF a = <<>> THEN TRUE
    ELSE IF Head(a) = Head(b) THEN str_lt(Tail(a), Tail(b))
    ELSE ord(Head(a)) < ord(Head(b))

\* the group keys in sorted order, as groupby leaves them in the index
sorted(S) ==
    CHOOSE index \in [1..Cardinality(S) -> S] :
        \A i, j \in 1..Cardinality(S) : i < j => str_lt(index[i], index[j])

\* mutant of sum_weight: the weight of the last row of the group, not the sum
sum_weight_last(frame, key) ==
    LET rows == { i \in DOMAIN frame :
                    /\ frame[i].iso3_code.kind = "str"
                    /\ frame[i].iso3_code.s = key
                    /\ frame[i].Weight.kind = "num" }
    IN  IF rows = {} THEN 0
        ELSE frame[CHOOSE i \in rows : \A j \in rows : j <= i].Weight.val

\* the sum of 'Weight (%)' over the rows of one group
sum_weight(frame, key) ==
    LET rows == { i \in DOMAIN frame :
                    /\ frame[i].iso3_code.kind = "str"
                    /\ frame[i].iso3_code.s = key
                    /\ frame[i].Weight.kind = "num" }
        partial[n \in 0..Len(frame)] ==
            IF n = 0 THEN 0
            ELSE partial[n - 1] + (IF n \in rows THEN frame[n].Weight.val ELSE 0)
    IN  partial[Len(frame)]

\* compo_frame.groupby('iso3_code').sum(): one row per key, keys sorted
groupby_sum(compo_frame) ==
    Bind(sorted({ compo_frame[i].iso3_code.s :
                    i \in { j \in DOMAIN compo_frame :
                              compo_frame[j].iso3_code.kind = "str" } }),
         LAMBDA index :
            [k \in DOMAIN index |->
                [iso3_code |-> index[k],
                 Weight |-> sum_weight(compo_frame, index[k])]])

\* one row per row of the reference table, indexed by alpha-3 code, weight 0
new_country_weights(iso_frame) ==
    [i \in DOMAIN iso_frame |->
        [index |-> iso_frame[i].Alpha3,
         iso3_code |-> Code(iso_frame[i].Alpha3),
         weight |-> 0]]

\* mutant of loc_set: the frame is not indexed by alpha-3 code, so no label
\* is found and every assignment adds a row
loc_set_unindexed(country_weights, iso3, v) ==
    Append(country_weights,
           [index |-> iso3, iso3_code |-> NaCode, weight |-> v])

\* country_weights.loc[iso3, 'weight'] = v: every row labelled iso3 is set;
\* a label the index does not hold is added as a new row
loc_set(country_weights, iso3, v) ==
    IF \E i \in DOMAIN country_weights : country_weights[i].index = iso3
    THEN [i \in DOMAIN country_weights |->
            IF country_weights[i].index = iso3
            THEN [country_weights[i] EXCEPT !.weight = v]
            ELSE country_weights[i]]
    ELSE Append(country_weights,
                [index |-> iso3, iso3_code |-> NaCode, weight |-> v])

\* for iso3 in compo_frame_grouped.index: ...
RECURSIVE set_weights(_, _)
set_weights(country_weights, grouped) ==
    IF grouped = <<>> THEN country_weights
    ELSE Bind(loc_set(country_weights, Head(grouped).iso3_code,
                      Head(grouped).Weight), LAMBDA assigned :
         Bind(Tail(grouped), LAMBDA rest :
            set_weights(assigned, rest)))

\* Series.apply(lambda x: self.get_country_name_from_iso3(x)), row after row
RECURSIVE apply_get_country_name(_, _, _, _, _)
apply_get_country_name(self, column, iso, env, acc) ==
    IF column = <<>> THEN Return(acc, env)
    ELSE Bind(get_country_name_from_iso3(self, Head(column), iso, env), LAMBDA r :
            IF r.status = "raised" THEN r
            ELSE Bind(Tail(column), LAMBDA rest :
                 Bind(Append(acc, r.value), LAMBDA acc1 :
                    apply_get_country_name(self, rest, iso, r.env, acc1))))

\* np.log(x): the logarithm is kept symbolic; log(0) is -inf, log(x<0) is nan
np_log(x) ==
    IF x = 0 THEN [kind |-> "-inf", of |-> x]
    ELSE IF x < 0 THEN [kind |-> "nan", of |-> x]
    ELSE [kind |-> "log", of |-> x]

get_country_weights(self, file_path, files, iso, env) ==
    Bind(load_etf_compo(self, file_path, files, iso, env), LAMBDA r1 :
        IF r1.status = "raised" THEN r1
        ELSE
        Bind(groupby_sum(r1.value), LAMBDA compo_frame_grouped :
        Bind(load_iso_mapping(self, iso, r1.env), LAMBDA r2 :
            IF r2.status = "raised" THEN r2
            ELSE
            Bind(set_weights(new_country_weights(r2.value), compo_frame_grouped),
                 LAMBDA assigned :
            Bind(apply_get_country_name(
                    self, [i \in DOMAIN assigned |-> assigned[i].iso3_code],
                    iso, r2.env, <<>>),
                 LAMBDA r3 :
                IF r3.status = "raised" THEN r3
                ELSE Return([i \in DOMAIN assigned |->
                                [iso3_code  |-> assigned[i].iso3_code,
                                 weight     |-> assigned[i].weight,
                                 country    |-> r3.value[i],
                                 weight_log |-> np_log(assigned[i].weight)]],
                            r3.env))))))

\* the rendering collaborator: the frame it is handed is recorded
show_weightings_plot(weights, env) ==
    Return(None, [env EXCEPT !.shown = Append(@, weights)])

\* the body of plot
plot_body(self, plot_date, ticker, files, iso, env) ==
    Bind(get_country_weights(self, get_file_path_by_ticker(plot_date, ticker),
                             files, iso, Log(env, "DEBUG Sampling file path")),
         LAMBDA r :
            IF r.status = "raised" THEN r
            ELSE show_weightings_plot(r.value, r.env))

\* mutant of logger_catch: the exception is logged and raised again
logger_catch_reraise(r) ==
    IF r.status = "raised"
    THEN Raise(r.exc, Log(r.env, "ERROR An error has been caught"))
    ELSE r

\* what @logger.catch() does with an exception of the decorated function:
\* it is logged and NOT raised again; the call returns None
logger_catch(r) ==
    IF r.status = "raised"
    THEN Return(None, Log(r.env, "ERROR An error has been caught"))
    ELSE r

plot(self, plot_date, ticker, files, iso, env) ==
    Bind(plot_body(self, plot_date, ticker, files, iso, env), LAMBDA r :
        logger_catch(r))

(* --------------------------- the state machine ------------------------- *)

Called(op, self, arg, r) ==
    [op |-> op, self |-> self, arg |-> arg,
     status |-> r.status, exc |-> r.exc, value |-> r.value,
     calls |-> r.env.calls, logged |-> r.env.logged,
     compo |-> r.env.compo, shown |-> r.env.shown]

\* one CompoMapper object per element of Mappers has been constructed; the
\* holdings of ticker WOOD have been downloaded, those of NONE have not
Init ==
    /\ \E h \in HoldingsFiles :
          fs = [p \in {get_file_path_by_ticker(PlotDate, "WOOD")} |-> h]
    /\ iso_csv \in IsoFiles
    /\ cache = <<>>
    /\ loads = 0
    /\ result = Called("init", "", <<>>, Return(<<>>, Env0(<<>>, 0)))

LoadIsoMapping(self) ==
    \E r \in { load_iso_mapping(self, iso_csv, Env0(cache, loads)) } :
        /\ result' = Called("load_iso_mapping", self, <<>>, r)
        /\ cache' = r.env.cache
        /\ loads' = r.env.loads
        /\ UNCHANGED <<fs, iso_csv>>

GetIso3FromIso2(self, iso2) ==
    \E r \in { get_iso3_from_iso2(self, iso2, iso_csv, Env0(cache, loads)) } :
        /\ result' = Called("get_iso3_from_iso2", self, iso2, r)
        /\ cache' = r.env.cache
        /\ loads' = r.env.loads
        /\ UNCHANGED <<fs, iso_csv>>

GetCountryNameFromIso3(self, iso3) ==
    \E r \in { get_country_name_from_iso3(self, iso3, iso_csv, Env0(cache, loads)) } :
        /\ result' = Called("get_country_name_from_iso3", self, iso3, r)
        /\ cache' = r.env.cache
        /\ loads' = r.env.loads
        /\ UNCHANGED <<fs, iso_csv>>

LoadEtfCompo(self, file_path) ==
    \E r \in { load_etf_compo(self, file_path, fs, iso_csv, Env0(cache, loads)) } :
        /\ result' = Called("load_etf_compo", self, file_path, r)
        /\ cache' = r.env.cache
        /\ loads' = r.env.loads
        /\ UNCHANGED <<fs, iso_csv>>

GetCountryWeights(self, file_path) ==
    \E r \in { get_country_weights(self, file_path, fs, iso_csv, Env0(cache, loads)) } :
        /\ result' = Called("get_country_weights", self, file_path, r)
        /\ cache' = r.env.cache
        /\ loads' = r.env.loads
        /\ UNCHANGED <<fs, iso_csv>>

Plot(self, ticker) ==
    \E r \in { plot(self, PlotDate, ticker, fs, iso_csv, Env0(cache, loads)) } :
        /\ result' = Called("plot", self, get_file_path_by_ticker(PlotDate, ticker), r)
        /\ cache' = r.env.cache
        /\ loads' = r.env.loads
        /\ UNCHANGED <<fs, iso_csv>>

Next ==
    \E self \in Mappers :
        \/ LoadIsoMapping(self)
        \/ \E iso2 \in Iso2Args : GetIso3FromIso2(self, iso2)
        \/ \E iso3 \in Iso3Args : GetCountryNameFromIso3(self, iso3)
        \/ \E file_path \in Paths : LoadEtfCompo(self, file_path)
        \/ \E file_path \in Paths : GetCountryWeights(self, file_path)
        \/ \E ticker \in Tickers : Plot(self, ticker)

Spec == Init /\ [][Next]_vars

(* ------------------- what the claims are stated with ------------------- *)

WoodPath == get_file_path_by_ticker(PlotDate, "WOOD")

\* the rows of the downloaded holdings file
Holdings == fs[WoodPath]

NotBlank(ch) == ch # " "

\* a code of the reference file with its blanks removed
Normalized(code) == SelectSeq(code, NotBlank)

RefAlpha2 == { Normalized(iso_csv.rows[i].Alpha2) : i \in DOMAIN iso_csv.rows }

Prefix2(str) == IF Len(str) <= 2 THEN str ELSE <<str[1], str[2]>>

IsEquityRow(row) == row.AssetClass = Txt("Equity")

\* the identifier's first two characters match a normalized alpha-2 code
Resolvable(row) ==
    row.ISIN.kind = "str" /\ Prefix2(row.ISIN.s) \in RefAlpha2

\* the alpha-3 code of the first reference row the identifier matches
ResolvedAlpha3(row) ==
    LET hits == { i \in DOMAIN iso_csv.rows :
                    Normalized(iso_csv.rows[i].Alpha2) = Prefix2(row.ISIN.s) }
    IN  Normalized(iso_csv.rows[CHOOSE i \in hits : \A j \in hits : i <= j].Alpha3)

HasWeight(row) == row.Weight.kind = "num"

\* load_etf_compo gets past the parsing of the Equity rows
Parses ==
    \A k \in DOMAIN Holdings :
        IsEquityRow(Holdings[k]) =>
            Holdings[k].Weight.kind # "text" /\ Holdings[k].ISIN.kind = "str"

RECURSIVE SumOver(_, _)
SumOver(S, w) ==
    IF S = {} THEN 0
    ELSE LET i == CHOOSE i \in S : TRUE
         IN  w[i] + SumOver(S \ {i}, w)

\* the sum of the total-weight values over all output rows
OutputTotal(frame) ==
    SumOver(DOMAIN frame, [i \in DOMAIN frame |-> frame[i].weight])

\* the sum of the weights of the holdings rows that satisfy Keep
InputTotal(Keep(_)) ==
    SumOver({ k \in DOMAIN Holdings : Keep(Holdings[k]) },
            [k \in DOMAIN Holdings |->
                IF HasWeight(Holdings[k]) THEN Holdings[k].Weight.val ELSE 0])

\* a frame returned by load_etf_compo, cut down to the columns of the file
FileColumns(frame) ==
    [i \in DOMAIN frame |->
        HoldingRow(frame[i].AssetClass, frame[i].Weight, frame[i].ISIN,
                   frame[i].Other)]

Aggregated == result.op = "get_country_weights" /\ result.status = "returned"

Loaded == result.op = "load_etf_compo" /\ result.status = "returned"

\* an Equity row with a resolvable identifier and no missing value at all
Complete(row) ==
    /\ IsEquityRow(row) /\ Resolvable(row) /\ HasWeight(row)
    /\ row.Other.kind # "nan"

\* an Equity row with a resolvable identifier and a present weight
EquityResolvedWeighted(row) ==
    IsEquityRow(row) /\ Resolvable(row) /\ HasWeight(row)

EquityResolved(row) == IsEquityRow(row) /\ Resolvable(row)

(* ------------------------------- claims -------------------------------- *)

\* C1: whenever get_country_weights returns, its output has one row per row
\* of the reference table, in the table's order, carrying the table's
\* normalized alpha-3 codes, however many countries occur in the holdings.
C1_Completeness ==
    Aggregated =>
        /\ Len(result.value) = Len(iso_csv.rows)
        /\ \A i \in DOMAIN result.value :
              result.value[i].iso3_code
                  = Code(Normalized(iso_csv.rows[i].Alpha3))

\* C1 witness: an output in which some countries carry weight and others none
C1_Witness ==
    /\ Aggregated
    /\ \E i \in DOMAIN result.value : result.value[i].weight > 0
    /\ \E i \in DOMAIN result.value : result.value[i].weight = 0

\* C2: in the output of get_country_weights the weight of the row of code C
\* is the sum of the weights of the holdings load_etf_compo returned whose
\* alpha-3 code is C (0 when there is none); the example of the
\* specification yields USA = 40, JPN = 10, DEU = 0.
C2_GroupSums ==
    Aggregated =>
        /\ \A i \in DOMAIN result.value :
              result.value[i].weight
                  = SumOver({ k \in DOMAIN result.compo :
                                result.compo[k].iso3_code
                                    = result.value[i].iso3_code },
                            [k \in DOMAIN result.compo |->
                                result.compo[k].Weight.val])
        /\ (Holdings = ExampleHoldings /\ iso_csv.rows = IsoTable3
              /\ result.arg = WoodPath) =>
                [i \in DOMAIN result.value |->
                    <<result.value[i].iso3_code.s, result.value[i].weight>>]
                  = << <<<<"U", "S", "A">>, 40>>,
                       <<<<"J", "P", "N">>, 10>>,
                       <<<<"D", "E", "U">>, 0>> >>

\* C2 witness: the example of the specification has been aggregated
C2_Witness ==
    /\ Aggregated
    /\ result.arg = WoodPath
    /\ Holdings = ExampleHoldings
    /\ iso_csv.rows = IsoTable3
    /\ result.value[1].weight = 40

\* C3 (as claimed): when every holdings row is an Equity row with a
\* resolvable identifier and a numeric weight, the output weights add up to
\* the input weights.
C3_Conservation ==
    (/\ Aggregated
     /\ result.arg = WoodPath
     /\ \A k \in DOMAIN Holdings : EquityResolvedWeighted(Holdings[k]))
        => OutputTotal(result.value) = InputTotal(EquityResolvedWeighted)

\* C4: every row load_etf_compo keeps is an Equity row, and the outcome of
\* get_country_weights is the outcome on the same file with every
\* non-Equity row removed beforehand.
C4_FilterCorrectness ==
    (result.op = "get_country_weights" /\ result.arg = WoodPath) =>
        /\ \A k \in DOMAIN result.compo : IsEquityRow(result.compo[k])
        /\ LET filtered == [fs EXCEPT ![WoodPath] = SelectSeq(@, IsEquityRow)]
               r == get_country_weights(result.self, WoodPath, filtered,
                                        iso_csv, Env0(<<>>, 0))
           IN  /\ result.status = r.status
               /\ result.exc = r.exc
               /\ result.value = r.value

\* C4 witness: an aggregation with weight in it, of a file that holds a
\* non-Equity row
C4_Witness ==
    /\ Aggregated
    /\ result.arg = WoodPath
    /\ \E k \in DOMAIN Holdings : ~IsEquityRow(Holdings[k])
    /\ OutputTotal(result.value) > 0

\* C5: for a code no normalized alpha-2 code matches, get_iso3_from_iso2
\* returns None and raises nothing; load_etf_compo then still returns, and
\* returns the rows that are complete and resolvable, without those whose
\* identifier is unresolvable; such a row adds no weight to the output of
\* get_country_weights.
C5_UnresolvableExcluded ==
    /\ (/\ result.op = "get_iso3_from_iso2"
        /\ iso_csv.exists
        /\ result.arg.s \notin RefAlpha2)
          => /\ result.status = "returned"
             /\ result.value = None
             /\ "WARNING No valid ISO mapping found" \in result.logged
    /\ (/\ result.op = "load_etf_compo"
        /\ result.arg = WoodPath
        /\ iso_csv.exists
        /\ Parses)
          => /\ result.status = "returned"
             /\ FileColumns(result.value) = SelectSeq(Holdings, Complete)
    /\ (Aggregated /\ result.arg = WoodPath)
          => OutputTotal(result.value) = InputTotal(Complete)

\* C5 witness: load_etf_compo returned rows of a file that also holds an
\* Equity row with an unresolvable identifier
C5_Witness ==
    /\ Loaded
    /\ result.arg = WoodPath
    /\ result.value # <<>>
    /\ \E k \in DOMAIN Holdings :
          /\ IsEquityRow(Holdings[k])
          /\ Holdings[k].ISIN.kind = "str"
          /\ ~Resolvable(Holdings[k])

\* C6: for a path that is no existing file, load_etf_compo and
\* get_country_weights end in the ValueError with the descriptive message,
\* which is logged, with no access to the reference table and no result.
C6_MissingHoldingsFile ==
    (/\ result.op \in {"load_etf_compo", "get_country_weights"}
     /\ result.arg \notin DOMAIN fs)
        => /\ result.status = "raised"
           /\ result.exc = "ValueError: Non-existent file path"
           /\ "ERROR Non-existent file path" \in result.logged
           /\ result.calls = 0
           /\ result.compo = <<>>
           /\ result.value = <<>>

\* C6 witness: get_country_weights was called with a path that does not exist
C6_Witness ==
    /\ result.op = "get_country_weights"
    /\ result.arg \notin DOMAIN fs
    /\ result.status = "raised"

\* C7 (as claimed): with the holdings file or the reference file missing,
\* plot does not return normally.
C7_PlotPropagates ==
    (/\ result.op = "plot"
     /\ (result.arg \notin DOMAIN fs \/ ~iso_csv.exists))
        => result.status = "raised"

\* C7 (amended): with the holdings file or the reference file missing, plot
\* logs the failure, renders nothing and returns None; the renderer is
\* handed a frame only when both files exist, and the frame is then the one
\* get_country_weights returns.
C7_PlotLogsAndReturns ==
    result.op = "plot" =>
        /\ (result.arg \notin DOMAIN fs \/ ~iso_csv.exists)
              => /\ result.status = "returned"
                 /\ result.value = None
                 /\ result.shown = <<>>
                 /\ "ERROR An error has been caught" \in result.logged
        /\ result.shown # <<>>
              => /\ Len(result.shown) = 1
                 /\ result.arg \in DOMAIN fs
                 /\ iso_csv.exists
                 /\ Parses
                 /\ Len(result.shown[1]) = Len(iso_csv.rows)
                 /\ OutputTotal(result.shown[1]) = InputTotal(Complete)

\* C7 witness: plot was called for a ticker whose holdings file is missing
C7_Witness ==
    /\ result.op = "plot"
    /\ result.arg \notin DOMAIN fs
    /\ result.status = "returned"
    /\ result.shown = <<>>

\* C8 (as claimed): the reference file is read and normalized at most once
\* per process, whichever CompoMapper objects access it.
C8_LoadedOncePerProcess == loads <= 1

\* C9 (as claimed): an Equity row whose weight is missing or is no number
\* makes load_etf_compo raise nothing: with both files present and every
\* Equity identifier present, load_etf_compo returns.
C9_BadWeightDropped ==
    (/\ result.op = "load_etf_compo"
     /\ result.arg = WoodPath
     /\ iso_csv.exists
     /\ \A k \in DOMAIN Holdings :
           IsEquityRow(Holdings[k]) => Holdings[k].ISIN.kind = "str")
        => /\ result.status = "returned"
           /\ \A i \in DOMAIN result.value : HasWeight(result.value[i])

\* C10 (as claimed): load_etf_compo returns exactly the Equity rows with a
\* resolvable alpha-3 code and a present weight, in input order, whatever
\* the other columns hold.
C10_ExactlyEquityResolvedWeighted ==
    (Loaded /\ result.arg = WoodPath)
        => FileColumns(result.value) = SelectSeq(Holdings, EquityResolvedWeighted)

====
